---- MODULE Spec2Model ----
(***************************************************************************)
(* Synchronisation of the locality hierarchy Regiao -> Estado -> Municipio *)
(* (core/services/ibge.py, core/services/dab.py, core/models.py).          *)
(*                                                                         *)
(* Python values are modelled as follows.                                  *)
(*   - a JSON object (dict) is a function whose domain is its set of keys; *)
(*   - a JSON scalar c is the record [py |-> "int", v |-> c];              *)
(*   - Python's None as a JSON value is the record [py |-> "None"];        *)
(*   - an Optional[int] argument or nullable column is <<>> (None) or      *)
(*     <<i>> (the integer i).                                              *)
(* A table is a function from primary keys to rows.                        *)
(***************************************************************************)
EXTENDS Integers, Sequences, FiniteSets, TLC

VARIABLES db, tx, pc, call, reqs, resps, payload, result, err, pre, last, prev, calls

vars == <<db, tx, pc, call, reqs, resps, payload, result, err, pre, last, prev, calls>>

(***************************************************************************)
(* Python values                                                           *)
(***************************************************************************)
None == <<>>

Some(i) == <<i>>

PyNone == [py |-> "None"]

PyInt(c) == [py |-> "int", v |-> c]

EmptyDict == <<>>

IsDict(v) == "py" \notin DOMAIN v

\* bool(v) for a JSON value: None, 0, {} and [] are falsy.
Truthy(v) ==
    IF IsDict(v) THEN DOMAIN v # {}
    ELSE IF v.py = "None" THEN FALSE
    ELSE IF v.py = "list" THEN v.items # <<>>
    ELSE v.v # 0

\* A variant of the argument test that takes only None for absent.
IsNotNone(x) == x # None

\* bool(x) for an Optional[int] argument: None and 0 are falsy.
TruthyArg(x) == x # None /\ x[1] # 0

\* dict.get(k, default)
Get(d, k, default) == IF k \in DOMAIN d THEN d[k] ELSE default

NoError == "ok"

(***************************************************************************)
(* Tables and rows (core/models.py)                                        *)
(***************************************************************************)
EmptyTable == <<>>

EmptyDB == [regiao |-> EmptyTable, estado |-> EmptyTable, municipio |-> EmptyTable]

\* Columns the reconciler never names; a new row gets the column default ("").
RegiaoBlank == [descricao |-> "", malha |-> ""]

EstadoBlank == [descricao |-> "", malha |-> "", bandeira |-> "", brasao |-> ""]

MunicipioBlank == [malha |-> ""]

\* Variant that never touches an existing row (get_or_create).
GetOrCreate(table, id, defaults, blank) ==
    IF id \in DOMAIN table
    THEN table
    ELSE (id :> (defaults @@ blank)) @@ table

\* Variant whose create path leaves sigla and nome at the column default.
CreateWithoutDefaults(table, id, defaults, blank) ==
    IF id \in DOMAIN table
    THEN [table EXCEPT ![id] = defaults @@ table[id]]
    ELSE (id :> ([k \in DOMAIN defaults |->
                    IF k \in {"sigla", "nome"} THEN "" ELSE defaults[k]] @@ blank))
         @@ table

\* A foreign key declared with null=True.
NullAllowed == TRUE

\* Estado.regiao and Municipio.estado are declared without null=True.
EstadoRegiaoNullable == FALSE

MunicipioEstadoNullable == FALSE

\* A variant of the upsert that rebuilds the table from the synced row, as a
\* mirroring sync that prunes what the payload does not name would.
ReplaceTable(table, id, defaults, blank) == id :> (defaults @@ blank)

\* A variant of the upsert that stores a fresh row in place of an existing one.
ReplaceRow(table, id, defaults, blank) == (id :> (defaults @@ blank)) @@ table

\* Manager.update_or_create(id=id, defaults=defaults): the row keyed by id is
\* created with the defaults (other columns blank) or has the defaults applied.
UpdateOrCreate(table, id, defaults, blank) ==
    IF id \in DOMAIN table
    THEN [table EXCEPT ![id] = defaults @@ table[id]]
    ELSE (id :> (defaults @@ blank)) @@ table

Raise(d, e) == [db |-> d, err |-> e, ent |-> None]

Return(d, id) == [db |-> d, err |-> NoError, ent |-> Some(id)]

(***************************************************************************)
(* Reconciler (core/services/ibge.py, "Database helpers")                  *)
(***************************************************************************)
_ensure_regiao(d, data) ==
    IF ~IsDict(data) THEN Raise(d, "TypeError")
    ELSE IF "id" \notin DOMAIN data THEN Raise(d, "KeyError")
    ELSE Return([d EXCEPT !.regiao =
                    UpdateOrCreate(d.regiao, data["id"],
                                   [sigla |-> Get(data, "sigla", ""),
                                    nome |-> Get(data, "nome", "")],
                                   RegiaoBlank)],
                data["id"])

_ensure_estado(d, data) ==
    IF ~IsDict(data) THEN Raise(d, "AttributeError")
    ELSE
      LET regiao_data == Get(data, "regiao", PyNone)
          r == IF Truthy(regiao_data) THEN _ensure_regiao(d, regiao_data)
               ELSE [db |-> d, err |-> NoError, ent |-> None]
      IN  IF r.err # NoError THEN Raise(r.db, r.err)
          ELSE IF "id" \notin DOMAIN data THEN Raise(r.db, "KeyError")
          ELSE IF r.ent = None /\ ~EstadoRegiaoNullable
               THEN Raise(r.db, "IntegrityError")
          ELSE Return([r.db EXCEPT !.estado =
                          UpdateOrCreate(r.db.estado, data["id"],
                                         [sigla |-> Get(data, "sigla", ""),
                                          nome |-> Get(data, "nome", ""),
                                          regiao |-> r.ent],
                                         EstadoBlank)],
                      data["id"])

\* data.get(k1, {}).get(k2, {}).get("UF")
UFChain(data, k1, k2) ==
    LET a == Get(data, k1, EmptyDict)
    IN  IF ~IsDict(a) THEN [err |-> "AttributeError", v |-> PyNone]
        ELSE LET b == Get(a, k2, EmptyDict)
             IN  IF ~IsDict(b) THEN [err |-> "AttributeError", v |-> PyNone]
                 ELSE [err |-> NoError, v |-> Get(b, "UF", PyNone)]

\* The "uf = ... or ..." expression of _ensure_municipio.
ExtractUF(data) ==
    LET first == UFChain(data, "microrregiao", "mesorregiao")
    IN  IF first.err # NoError THEN first
        ELSE IF Truthy(first.v) THEN first
        ELSE UFChain(data, "regiao-imediata", "regiao-intermediaria")

_ensure_municipio(d, data) ==
    IF ~IsDict(data) THEN Raise(d, "AttributeError")
    ELSE
      LET uf == ExtractUF(data)
      IN  IF uf.err # NoError THEN Raise(d, uf.err)
          ELSE
            LET r == IF Truthy(uf.v) THEN _ensure_estado(d, uf.v)
                     ELSE [db |-> d, err |-> NoError, ent |-> None]
            IN  IF r.err # NoError THEN Raise(r.db, r.err)
                ELSE IF "id" \notin DOMAIN data THEN Raise(r.db, "KeyError")
                ELSE IF r.ent = None /\ ~MunicipioEstadoNullable
                     THEN Raise(r.db, "IntegrityError")
                ELSE Return([r.db EXCEPT !.municipio =
                                UpdateOrCreate(r.db.municipio, data["id"],
                                               [nome |-> Get(data, "nome", ""),
                                                estado |-> r.ent],
                                               MunicipioBlank)],
                            data["id"])

Levels == {"regioes", "estados", "municipios"}

\* The helper each sync entry point maps over its payload.
Ensure(level, d, data) ==
    IF level = "regioes" THEN _ensure_regiao(d, data)
    ELSE IF level = "estados" THEN _ensure_estado(d, data)
    ELSE _ensure_municipio(d, data)

(***************************************************************************)
(* Remote locality client                                                  *)
(***************************************************************************)
Services == {"ibge", "dab"}

\* ibge: the endpoint handed to _request, as its path segments.
\* dab: the keyword arguments handed to DadosAbertosBrasil.ibge.localidades.
IbgeRequest(segments) == [service |-> "ibge", endpoint |-> segments]

DabRequest(nivel, divisoes, localidade) ==
    [service |-> "dab", nivel |-> nivel, divisoes |-> divisoes,
     localidade |-> localidade]

ibge_get_regioes(regiao_id) ==
    IbgeRequest(IF TruthyArg(regiao_id)
                THEN <<"regioes", ToString(regiao_id[1])>>
                ELSE <<"regioes">>)

\* Variant that tests the parent id before the entity id.
ibge_get_estadosParentFirst(estado_id, regiao_id) ==
    IbgeRequest(IF TruthyArg(regiao_id)
                THEN <<"regioes", ToString(regiao_id[1]), "estados">>
                ELSE IF TruthyArg(estado_id)
                THEN <<"estados", ToString(estado_id[1])>>
                ELSE <<"estados">>)

ibge_get_estados(estado_id, regiao_id) ==
    IbgeRequest(IF TruthyArg(estado_id)
                THEN <<"estados", ToString(estado_id[1])>>
                ELSE IF TruthyArg(regiao_id)
                THEN <<"regioes", ToString(regiao_id[1]), "estados">>
                ELSE <<"estados">>)

ibge_get_municipios(municipio_id, estado_id) ==
    IbgeRequest(IF TruthyArg(municipio_id)
                THEN <<"municipios", ToString(municipio_id[1])>>
                ELSE IF TruthyArg(estado_id)
                THEN <<"estados", ToString(estado_id[1]), "municipios">>
                ELSE <<"municipios">>)

dab_get_regioes(regiao_id) ==
    DabRequest("regioes", None,
               IF TruthyArg(regiao_id) THEN Some(ToString(regiao_id[1]))
               ELSE None)

dab_get_estados(estado_id, regiao_id) ==
    IF TruthyArg(estado_id)
    THEN DabRequest("estados", None, Some(ToString(estado_id[1])))
    ELSE IF TruthyArg(regiao_id)
    THEN DabRequest("regioes", Some("estados"), Some(ToString(regiao_id[1])))
    ELSE DabRequest("estados", None, None)

dab_get_municipios(municipio_id, estado_id) ==
    IF TruthyArg(municipio_id)
    THEN DabRequest("municipios", None, Some(ToString(municipio_id[1])))
    ELSE IF TruthyArg(estado_id)
    THEN DabRequest("estados", Some("municipios"), Some(ToString(estado_id[1])))
    ELSE DabRequest("municipios", None, None)

\* The fetch helper a sync entry point of the given module and level calls
\* (get_regioes takes no parent id).
GetRequest(service, level, id, parent) ==
    IF service = "ibge"
    THEN IF level = "regioes" THEN ibge_get_regioes(id)
         ELSE IF level = "estados" THEN ibge_get_estados(id, parent)
         ELSE ibge_get_municipios(id, parent)
    ELSE IF level = "regioes" THEN dab_get_regioes(id)
         ELSE IF level = "estados" THEN dab_get_estados(id, parent)
         ELSE dab_get_municipios(id, parent)

\* A response is [status |-> "ok", json |-> v] or [status |-> <error>].
OkResponse(v) == [status |-> "ok", json |-> v]

PyList(items) == [py |-> "list", items |-> items]

\* Variant without raise_for_status: the body of an error response is decoded.
_requestNoRaise(resp) ==
    [err |-> NoError,
     json |-> IF resp.status = "ok" THEN resp.json ELSE PyList(<<>>)]

\* _request: requests.get once, raise_for_status, response.json().
_request(resp) ==
    IF resp.status # "ok" THEN [err |-> resp.status, json |-> PyNone]
    ELSE [err |-> NoError, json |-> resp.json]

_normalize_payload(item_or_list) ==
    IF ~IsDict(item_or_list) /\ item_or_list.py = "list"
    THEN item_or_list.items
    ELSE <<item_or_list>>

\* Variant that inserts the new items in front of the payload.
ExtendFront(list, items) == items \o list

\* list.extend(items)
Extend(list, items) == list \o items

(***************************************************************************)
(* Inputs: payloads the remote service may return, and call arguments      *)
(***************************************************************************)
MaxIds == 2

MaxCalls == 2

R1 == [id |-> 1, sigla |-> "N", nome |-> "Norte"]

R1b == [id |-> 1, sigla |-> "NO", nome |-> "Norte"]

R2 == [id |-> 2, sigla |-> "SE", nome |-> "Sudeste"]

R2Bare == [id |-> 2]

R1Bare == [id |-> 1]

RNoId == [sigla |-> "SE", nome |-> "Sudeste"]

E1 == [id |-> 1, sigla |-> "SP", nome |-> "Sao Paulo", regiao |-> R2]

E1b == [id |-> 1, sigla |-> "SP", nome |-> "S. Paulo", regiao |-> R1]

E2 == [id |-> 2, sigla |-> "AM", nome |-> "Amazonas", regiao |-> R1]

E2Bare == [id |-> 2, sigla |-> "AM", nome |-> "Amazonia", regiao |-> R1Bare]

E2NoReg == [id |-> 2, sigla |-> "AM", nome |-> "Amazonas"]

ENoId == [sigla |-> "SP", nome |-> "Sao Paulo", regiao |-> R2]

ERegNoId == [id |-> 2, sigla |-> "AM", nome |-> "Amazonas", regiao |-> RNoId]

Micro(uf) == [mesorregiao |-> [UF |-> uf]]

Imediata(uf) == "regiao-intermediaria" :> [UF |-> uf]

M1 == [id |-> 1, nome |-> "Campinas", microrregiao |-> Micro(E1)]

M2 == ("regiao-imediata" :> Imediata(E2)) @@ [id |-> 2, nome |-> "Manaus"]

M1b == ("regiao-imediata" :> Imediata(E2))
       @@ [id |-> 1, nome |-> "Campinas", microrregiao |-> Micro(E1b)]

MNoUF == [id |-> 2, nome |-> "Manaus"]

MCode == [id |-> 2, nome |-> "Manaus", microrregiao |-> Micro(PyInt(13))]

MZero == ("regiao-imediata" :> Imediata(E2))
         @@ [id |-> 2, nome |-> "Manaus", microrregiao |-> Micro(PyInt(0))]

MUFNoId == [id |-> 2, nome |-> "Manaus", microrregiao |-> Micro(ENoId)]

MUFNoReg == ("regiao-imediata" :> Imediata(E2NoReg)) @@ [id |-> 2, nome |-> "Manaus"]

MNoId == [nome |-> "Campinas", microrregiao |-> Micro(E1)]

\* JSON bodies of a 2xx response: a single-entity endpoint answers with one
\* object, a collection endpoint with a list.
ObjectBodies(level) ==
    IF level = "regioes" THEN {R1, R2Bare, RNoId}
    ELSE IF level = "estados" THEN {E1, E2NoReg, ERegNoId}
    ELSE {M1, MNoUF, MCode}

ListBodies(level) ==
    IF level = "regioes"
    THEN {PyList(<<>>), PyList(<<R1b, R2, R1>>), PyList(<<R2, R1, RNoId, R1b>>)}
    ELSE IF level = "estados"
    THEN {PyList(<<E1b, E2, E1>>), PyList(<<E2, E1, ENoId>>), PyList(<<E1, E2NoReg>>)}
    ELSE {PyList(<<M2, M1b, M1>>), PyList(<<M1, MUFNoId>>),
          PyList(<<M2, MZero, MUFNoReg, M1>>), PyList(<<M1, MNoId>>)}

TransportErrors == {"HTTPError", "ConnectionError"}

IsSingleEntity(req) ==
    IF req.service = "ibge" THEN Len(req.endpoint) = 2
    ELSE req.localidade # None /\ req.divisoes = None

\* Outcomes of one requests.get / localidades call.
Responses(req, level) ==
    {OkResponse(b) : b \in IF IsSingleEntity(req) THEN ObjectBodies(level)
                           ELSE ListBodies(level)}
    \cup {[status |-> e] : e \in TransportErrors}

ListIds == 0 .. 2

\* Lists of distinct ids, of length 0 .. MaxIds.
IdLists ==
    {None} \cup
    {Some(l) : l \in {q \in UNION {[1 .. n -> ListIds] : n \in 0 .. MaxIds} :
                         \A i, j \in DOMAIN q : q[i] = q[j] => i = j}}

\* Arguments of one sync call; sync_regioes has no parent-scope argument.
CallArgs ==
    {c \in [service : Services, level : Levels, id : {None, Some(0), Some(1)},
            parent : {None, Some(0), Some(2)}, ids : IdLists] :
        /\ c.level = "regioes" => c.parent = None
        /\ (c.ids # None /\ c.ids # Some(<<>>)) =>
              c.id = Some(1) /\ (c.parent = Some(2) \/ c.level = "regioes")}

SeededDB ==
    [regiao |-> 1 :> [sigla |-> "N", nome |-> "Norte", descricao |-> "norte",
                      malha |-> "n.json"],
     estado |-> 2 :> [sigla |-> "AM", nome |-> "Amazonas", regiao |-> Some(1),
                      descricao |-> "am", malha |-> "am.json",
                      bandeira |-> "am.png", brasao |-> "am.svg"],
     municipio |-> 2 :> [nome |-> "Manaus", estado |-> Some(2), malha |-> "m2"]]

InitDBs == {EmptyDB, SeededDB}

NoCall == [service |-> "", level |-> "", id |-> None, parent |-> None, ids |-> None]

NoEnsure == [level |-> "", item |-> PyNone, before |-> EmptyDB, after |-> EmptyDB,
             err |-> NoError, ent |-> None]

(***************************************************************************)
(* Sync orchestrator: sync_regioes / sync_estados / sync_municipios        *)
(***************************************************************************)
\* "if ids:" -- None and the empty list are falsy.
TruthyList(ids) == ids # None /\ Len(ids[1]) > 0

\* Number of requests the call issues.
Planned(c) == IF TruthyList(c.ids) THEN Len(c.ids[1]) ELSE 1

\* Variant that forwards the parent-scope id with each listed id.
NextRequestWithParent(c, k) ==
    IF TruthyList(c.ids)
    THEN GetRequest(c.service, c.level, Some(c.ids[1][k]), c.parent)
    ELSE GetRequest(c.service, c.level, c.id, c.parent)

\* The k-th get_* call of the invocation.
NextRequest(c, k) ==
    IF TruthyList(c.ids)
    THEN GetRequest(c.service, c.level, Some(c.ids[1][k]), None)
    ELSE GetRequest(c.service, c.level, c.id, c.parent)

\* Variant of the atomic block that keeps the writes made before the error.
AtomicExitNoRollback(before, working, failed) == working

\* Leaving "with transaction.atomic()": commit, or roll back on an exception.
AtomicExit(before, working, failed) == IF failed THEN before ELSE working

Init ==
    /\ db \in InitDBs
    /\ tx = db
    /\ pre = db
    /\ pc = "idle"
    /\ call = NoCall
    /\ reqs = <<>>
    /\ resps = <<>>
    /\ payload = <<>>
    /\ result = <<>>
    /\ err = NoError
    /\ last = NoEnsure
    /\ prev = NoEnsure
    /\ calls = 0

\* A caller invokes a sync entry point.
Call(c) ==
    /\ pc = "idle"
    /\ calls < MaxCalls
    /\ call' = c
    /\ pc' = "fetch"
    /\ pre' = db
    /\ calls' = calls + 1
    /\ reqs' = <<>>
    /\ resps' = <<>>
    /\ payload' = <<>>
    /\ result' = <<>>
    /\ err' = NoError
    /\ last' = NoEnsure
    /\ UNCHANGED <<db, tx, prev>>

\* One get_* call: the request is issued once; a failure propagates, a body
\* is normalised and appended. After the last one the atomic block is entered.
Fetch ==
    /\ pc = "fetch"
    /\ LET k == Len(reqs) + 1
           req == NextRequest(call, k)
       IN  \E resp \in Responses(req, call.level) :
             LET r == _request(resp)
             IN  /\ reqs' = Append(reqs, req)
                 /\ resps' = Append(resps, resp)
                 /\ IF r.err # NoError
                    THEN /\ pc' = "raised"
                         /\ err' = r.err
                         /\ UNCHANGED payload
                    ELSE /\ payload' = Extend(payload, _normalize_payload(r.json))
                         /\ pc' = IF k < Planned(call) THEN "fetch" ELSE "reconcile"
                         /\ UNCHANGED err
    /\ tx' = db
    /\ UNCHANGED <<db, pre, call, result, last, prev, calls>>

\* One element of the list comprehension inside the atomic block.
Reconcile ==
    /\ pc = "reconcile"
    /\ Len(result) < Len(payload)
    /\ LET item == payload[Len(result) + 1]
           r == Ensure(call.level, tx, item)
       IN  /\ last' = [level |-> call.level, item |-> item, before |-> tx,
                       after |-> r.db, err |-> r.err, ent |-> r.ent]
           /\ IF r.err # NoError
              THEN /\ pc' = "raised"
                   /\ err' = r.err
                   /\ db' = AtomicExit(db, r.db, TRUE)
                   /\ tx' = db'
                   /\ UNCHANGED result
              ELSE /\ tx' = r.db
                   /\ result' = Append(result, r.ent[1])
                   /\ UNCHANGED <<db, pc, err>>
    /\ UNCHANGED <<pre, call, reqs, resps, payload, prev, calls>>

\* The comprehension is exhausted: the block commits and the list is returned.
Commit ==
    /\ pc = "reconcile"
    /\ Len(result) = Len(payload)
    /\ db' = AtomicExit(db, tx, FALSE)
    /\ tx' = db'
    /\ pc' = "returned"
    /\ UNCHANGED <<pre, call, reqs, resps, payload, result, err, last, prev, calls>>

\* Control is back with the caller.
Finish ==
    /\ pc \in {"returned", "raised"}
    /\ pc' = "idle"
    /\ call' = NoCall
    /\ reqs' = <<>>
    /\ resps' = <<>>
    /\ payload' = <<>>
    /\ result' = <<>>
    /\ err' = NoError
    /\ last' = NoEnsure
    /\ pre' = db
    /\ UNCHANGED <<db, tx, prev, calls>>

Next ==
    \/ \E c \in CallArgs : Call(c)
    \/ Fetch
    \/ Reconcile
    \/ Commit
    \/ Finish

Spec == Init /\ [][Next]_vars

(***************************************************************************)
(* The reconciler on its own: ensure helpers applied one after another to  *)
(* the database in autocommit mode (every update_or_create is durable as   *)
(* soon as it returns, so writes made before an exception stay).           *)
(***************************************************************************)
MaxEnsures == 2

Items(level) ==
    IF level = "regioes" THEN {R1, R1b, R2, R2Bare, RNoId}
    ELSE IF level = "estados" THEN {E1, E1b, E2, E2Bare, E2NoReg, ENoId, ERegNoId}
    ELSE {M1, M1b, M2, MNoUF, MCode, MZero, MUFNoId, MUFNoReg, MNoId}

InitEnsure ==
    /\ db \in InitDBs
    /\ tx = db
    /\ pre = db
    /\ pc = "idle"
    /\ call = NoCall
    /\ reqs = <<>>
    /\ resps = <<>>
    /\ payload = <<>>
    /\ result = <<>>
    /\ err = NoError
    /\ last = NoEnsure
    /\ prev = NoEnsure
    /\ calls = 0

EnsureCall(level, item) ==
    /\ calls < MaxEnsures
    /\ LET r == Ensure(level, db, item)
       IN  /\ db' = r.db
           /\ last' = [level |-> level, item |-> item, before |-> db,
                       after |-> r.db, err |-> r.err, ent |-> r.ent]
    /\ prev' = last
    /\ calls' = calls + 1
    /\ tx' = db'
    /\ UNCHANGED <<pre, pc, call, reqs, resps, payload, result, err>>

NextEnsure == \E level \in Levels : \E item \in Items(level) : EnsureCall(level, item)

SpecEnsure == InitEnsure /\ [][NextEnsure]_vars

(***************************************************************************)
(* The fetch helpers on their own: one get_* call per argument pair.       *)
(***************************************************************************)
MaxArgId == 2

ArgIds == {None} \cup {Some(i) : i \in 0 .. MaxArgId}

FetchArgs ==
    {c \in [service : Services, level : Levels, id : ArgIds, parent : ArgIds,
            ids : {None}] : c.level = "regioes" => c.parent = None}

InitFetch ==
    /\ db = EmptyDB
    /\ tx = db
    /\ pre = db
    /\ pc = "idle"
    /\ call \in FetchArgs
    /\ reqs = <<>>
    /\ resps = <<>>
    /\ payload = <<>>
    /\ result = <<>>
    /\ err = NoError
    /\ last = NoEnsure
    /\ prev = NoEnsure
    /\ calls = 0

GetCall ==
    /\ pc = "idle"
    /\ reqs' = <<GetRequest(call.service, call.level, call.id, call.parent)>>
    /\ pc' = "requested"
    /\ UNCHANGED <<db, tx, pre, call, resps, payload, result, err, last, prev, calls>>

NextFetch == GetCall

SpecFetch == InitFetch /\ [][NextFetch]_vars

(***************************************************************************)
(* Properties                                                              *)
(***************************************************************************)
\* C1: if reconciling a record of an invocation raises, the call ends with
\* the Regiao/Estado/Municipio tables exactly as they were before the call,
\* parent rows upserted earlier in the same call included; and nothing a
\* running call has written is persisted before its atomic block commits.
C1_Atomicity ==
    /\ (pc = "raised" /\ err \notin TransportErrors) => db = pre
    /\ pc = "reconcile" => db = pre

\* The third (or a later) record of a sync_municipios call failed after the
\* earlier ones had upserted municipality, state and region rows.
C1_Witness ==
    /\ pc = "raised"
    /\ err \notin TransportErrors
    /\ call.level = "municipios"
    /\ Len(payload) = 5
    /\ Len(result) = 2
    /\ last.before.regiao # pre.regiao
    /\ last.before.estado # pre.estado
    /\ last.before.municipio # pre.municipio

\* C2: a failed fetch (non-2xx status or connection failure), also the k-th
\* of an id list, is the last request of the call: it is issued once, its
\* error reaches the caller unchanged, nothing is reconciled and the
\* database is as before the call.
C2_TransportFailure ==
    /\ Len(reqs) = Len(resps)
    /\ \A i \in 1 .. Len(resps) :
          resps[i].status # "ok" =>
             /\ i = Len(resps)
             /\ pc = "raised"
             /\ err = resps[i].status
             /\ result = <<>>
             /\ db = pre

\* The second fetch of an id list fails after the first delivered a record.
C2_Witness ==
    /\ pc = "raised"
    /\ err \in TransportErrors
    /\ Len(resps) >= 2
    /\ payload # <<>>
    /\ TruthyList(call.ids)

\* C3: every persisted Estado references an existing Regiao and every
\* persisted Municipio references an existing Estado, whatever sequence of
\* committed and aborted sync calls has run.
C3_ParentsExist ==
    /\ \A e \in DOMAIN db.estado :
          /\ db.estado[e].regiao # None
          /\ db.estado[e].regiao[1] \in DOMAIN db.regiao
    /\ \A m \in DOMAIN db.municipio :
          /\ db.municipio[m].estado # None
          /\ db.municipio[m].estado[1] \in DOMAIN db.estado

\* A second call has committed new municipalities with their parents.
C3_Witness ==
    /\ pc = "returned"
    /\ calls = 2
    /\ call.level = "municipios"
    /\ DOMAIN db.municipio # DOMAIN pre.municipio
    /\ DOMAIN db.estado # {}

\* A state payload without nested region, or a municipality payload in which
\* neither nested shape yields a UF.
OmitsParent(level, item) ==
    IF level = "estados" THEN ~Truthy(Get(item, "regiao", PyNone))
    ELSE /\ ~Truthy(UFChain(item, "microrregiao", "mesorregiao").v)
         /\ ~Truthy(UFChain(item, "regiao-imediata", "regiao-intermediaria").v)

ChildWithoutParent ==
    /\ last.level \in {"estados", "municipios"}
    /\ IsDict(last.item)
    /\ "id" \in DOMAIN last.item
    /\ OmitsParent(last.level, last.item)

\* C4 (as claimed): a child payload that omits its parent data is persisted
\* with a null parent reference and the call goes on.
C4_NullParentPersisted ==
    ChildWithoutParent =>
       /\ last.err = NoError
       /\ pc # "raised"
       /\ IF last.level = "estados"
          THEN /\ last.item["id"] \in DOMAIN last.after.estado
               /\ last.after.estado[last.item["id"]].regiao = None
          ELSE /\ last.item["id"] \in DOMAIN last.after.municipio
               /\ last.after.municipio[last.item["id"]].estado = None

\* C4 (amended): a child payload (with an id) that omits its parent data is
\* rejected by the non-null foreign key: the helper raises IntegrityError
\* without writing anything, and the enclosing sync call ends with that
\* error and the database as before the call.
C4_NullParentRejected ==
    ChildWithoutParent =>
       /\ last.err = "IntegrityError"
       /\ last.after = last.before
       /\ pc = "raised"
       /\ err = "IntegrityError"
       /\ db = pre

\* A municipality payload without UF was reconciled after earlier records.
C4_Witness ==
    /\ ChildWithoutParent
    /\ last.level = "municipios"
    /\ calls = 2
    /\ pre # EmptyDB

\* The UF extracted from a municipality payload is not an object with an id.
UnresolvableUF(item) ==
    LET u == ExtractUF(item)
    IN  u.err # NoError \/ ~IsDict(u.v) \/ "id" \notin DOMAIN u.v

\* C5: when the UF of a municipality payload is not a state object with an
\* id, ensure_municipality fails fast (before writing anything) with a
\* validation error, the enclosing sync call aborts with it, and no
\* Municipio with a null state is persisted.
C5_FailsFastValidation ==
    (last.level = "municipios" /\ IsDict(last.item) /\ UnresolvableUF(last.item)) =>
       /\ last.err = "ValidationError"
       /\ last.after = last.before
       /\ pc = "raised"
       /\ err = "ValidationError"
       /\ db = pre
       /\ \A m \in DOMAIN db.municipio : db.municipio[m].estado # None

\* A nested parent payload that can be resolved: an object with an id.
Resolvable(v) == IsDict(v) /\ "id" \in DOMAIN v

\* The UF a municipality payload carries: the one under
\* microrregiao.mesorregiao if there is one, else the one under
\* regiao-imediata.regiao-intermediaria.
PayloadUF(item) ==
    LET a == Get(Get(Get(item, "microrregiao", EmptyDict), "mesorregiao", EmptyDict),
                 "UF", PyNone)
        b == Get(Get(Get(item, "regiao-imediata", EmptyDict), "regiao-intermediaria",
                     EmptyDict), "UF", PyNone)
    IN  IF Truthy(a) THEN a ELSE b

\* After the call the Estado row of payload e exists and references the
\* existing Regiao row of its nested region.
EstadoLinked(d, e) ==
    /\ e["id"] \in DOMAIN d.estado
    /\ e["regiao"]["id"] \in DOMAIN d.regiao
    /\ d.estado[e["id"]].regiao = Some(e["regiao"]["id"])

MunicipioLinked(d, m, uf) ==
    /\ m["id"] \in DOMAIN d.municipio
    /\ uf["id"] \in DOMAIN d.estado
    /\ d.municipio[m["id"]].estado = Some(uf["id"])

\* C6 (as claimed): every child payload with a resolvable nested parent is
\* persisted referencing exactly that parent: a state its nested region, a
\* municipality the UF resolved from its payload.
C6_ChildReferencesParent ==
    /\ (/\ last.level = "estados"
        /\ "id" \in DOMAIN last.item
        /\ Resolvable(Get(last.item, "regiao", PyNone))) =>
           last.err = NoError /\ EstadoLinked(last.after, last.item)
    /\ (/\ last.level = "municipios"
        /\ "id" \in DOMAIN last.item
        /\ Resolvable(PayloadUF(last.item))) =>
           /\ last.err = NoError
           /\ MunicipioLinked(last.after, last.item, PayloadUF(last.item))

\* C6 (amended): as claimed for a state; for a municipality provided the UF
\* in turn carries a resolvable nested region, and then the state also
\* references that region. The parents are upserted before the child: when
\* the child payload itself has no id the call raises KeyError with the
\* parent rows already written.
C6_ChildReferencesResolvedChain ==
    /\ (/\ last.level = "estados"
        /\ Resolvable(Get(last.item, "regiao", PyNone))) =>
           IF "id" \in DOMAIN last.item
           THEN last.err = NoError /\ EstadoLinked(last.after, last.item)
           ELSE /\ last.err = "KeyError"
                /\ last.item["regiao"]["id"] \in DOMAIN last.after.regiao
                /\ last.after.estado = last.before.estado
    /\ (/\ last.level = "municipios"
        /\ Resolvable(PayloadUF(last.item))
        /\ Resolvable(Get(PayloadUF(last.item), "regiao", PyNone))) =>
           IF "id" \in DOMAIN last.item
           THEN /\ last.err = NoError
                /\ MunicipioLinked(last.after, last.item, PayloadUF(last.item))
                /\ EstadoLinked(last.after, PayloadUF(last.item))
           ELSE /\ last.err = "KeyError"
                /\ EstadoLinked(last.after, PayloadUF(last.item))
                /\ last.after.municipio = last.before.municipio

\* A municipality whose state already existed under another region is
\* reconciled with a payload naming a different UF region.
C6_Witness ==
    /\ last.level = "municipios"
    /\ last.item = M1b
    /\ last.err = NoError
    /\ 1 \in DOMAIN last.before.estado
    /\ last.before.estado[1].regiao # last.after.estado[1].regiao

\* C10: an ensure helper called twice in succession with the same payload
\* leaves the rows (of the entity and of every parent it ensures) exactly as
\* the first call left them, and ends the same way.
C10_Idempotent ==
    (prev.level # "" /\ prev.level = last.level /\ prev.item = last.item) =>
       /\ last.before = prev.after
       /\ last.after = prev.after
       /\ last.err = prev.err
       /\ last.ent = prev.ent

\* The same municipality payload was ensured twice and the first call
\* created rows at all three levels.
C10_Witness ==
    /\ prev.level = "municipios"
    /\ last.level = "municipios"
    /\ prev.item = last.item
    /\ last.err = NoError
    /\ prev.before.regiao # prev.after.regiao
    /\ prev.before.estado # prev.after.estado
    /\ prev.before.municipio # prev.after.municipio

\* The three requests a level offers, as each service module expresses them.
ParentLevel(level) == IF level = "estados" THEN "regioes" ELSE "estados"

SingleEntityRequest(service, level, id) ==
    IF service = "ibge"
    THEN [service |-> "ibge", endpoint |-> <<level, ToString(id)>>]
    ELSE [service |-> "dab", nivel |-> level, divisoes |-> None,
          localidade |-> Some(ToString(id))]

NestedRequest(service, level, parent) ==
    IF service = "ibge"
    THEN [service |-> "ibge",
          endpoint |-> <<ParentLevel(level), ToString(parent), level>>]
    ELSE [service |-> "dab", nivel |-> ParentLevel(level), divisoes |-> Some(level),
          localidade |-> Some(ToString(parent))]

CollectionRequest(service, level) ==
    IF service = "ibge"
    THEN [service |-> "ibge", endpoint |-> <<level>>]
    ELSE [service |-> "dab", nivel |-> level, divisoes |-> None, localidade |-> None]

HasParentArg == call.level \in {"estados", "municipios"}

ByPrecedence(c) ==
    IF TruthyArg(c.id) THEN SingleEntityRequest(c.service, c.level, c.id[1])
    ELSE IF TruthyArg(c.parent) /\ c.level # "regioes"
    THEN NestedRequest(c.service, c.level, c.parent[1])
    ELSE CollectionRequest(c.service, c.level)

InCall == pc \in {"fetch", "reconcile", "returned", "raised"}

FetchesDone == pc \in {"reconcile", "returned"} \/ (pc = "raised" /\ err \notin TransportErrors)

RECURSIVE FetchedObjects(_)
\* The payload objects of a sequence of 2xx responses, in fetch order.
FetchedObjects(rs) ==
    IF rs = <<>> THEN <<>>
    ELSE LET body == Head(rs).json
         IN  (IF ~IsDict(body) /\ body.py = "list" THEN body.items ELSE <<body>>)
             \o FetchedObjects(Tail(rs))

Table(d, level) ==
    IF level = "regioes" THEN d.regiao
    ELSE IF level = "estados" THEN d.estado
    ELSE d.municipio

\* C9: a successful sync call returns one persisted entity per fetched
\* payload object, in fetch order (id-list order across requests, response
\* order within a list, duplicates included), the i-th with the id of the
\* i-th fetched object.
C9_ReturnsFetchOrder ==
    pc = "returned" =>
       LET objs == FetchedObjects(resps)
       IN  /\ Len(result) = Len(objs)
           /\ \A i \in 1 .. Len(result) :
                 /\ result[i] = objs[i]["id"]
                 /\ result[i] \in DOMAIN Table(db, call.level)

\* Two requests delivered four or more objects, one id more than once.
C9_Witness ==
    /\ pc = "returned"
    /\ Len(resps) = 2
    /\ Len(result) >= 4
    /\ \E i, j \in 1 .. Len(result) : i < j /\ result[i] = result[j]
    /\ \E i, j \in 1 .. Len(result) : i < j /\ result[i] > result[j]

\* The columns an upsert of the payload item writes, as the payload gives
\* them (a missing sigla or nome is stored as "").
PayloadColumns(level, item) ==
    IF level = "regioes"
    THEN [sigla |-> Get(item, "sigla", ""), nome |-> Get(item, "nome", "")]
    ELSE IF level = "estados"
    THEN [sigla |-> Get(item, "sigla", ""), nome |-> Get(item, "nome", ""),
          regiao |-> Some(item["regiao"]["id"])]
    ELSE [nome |-> Get(item, "nome", ""), estado |-> Some(PayloadUF(item)["id"])]

HoldsColumns(row, cols) == \A k \in DOMAIN cols : row[k] = cols[k]

\* The position of the last occurrence of id in the payload.
LastOccurrence(id) ==
    CHOOSE i \in 1 .. Len(payload) :
       /\ payload[i]["id"] = id
       /\ \A j \in (i + 1) .. Len(payload) : payload[j]["id"] # id

\* C11: the payload is reconciled in order without deduplication: every
\* occurrence of an id is upserted when its turn comes (the row then holds
\* that occurrence's fields and parent reference), and after commit the one
\* row of an id holds the fields and parent reference of its last occurrence.
C11_LaterUpsertWins ==
    /\ (pc = "reconcile" /\ last.level # "" /\ last.err = NoError) =>
          /\ last.item = payload[Len(result)]
          /\ HoldsColumns(Table(tx, call.level)[last.item["id"]],
                          PayloadColumns(call.level, last.item))
    /\ pc = "returned" =>
          \A i \in 1 .. Len(payload) :
             /\ payload[i]["id"] \in DOMAIN Table(db, call.level)
             /\ HoldsColumns(Table(db, call.level)[payload[i]["id"]],
                             PayloadColumns(call.level,
                                            payload[LastOccurrence(payload[i]["id"])]))

\* A committed sync_estados payload named one state twice, with different
\* names and different regions.
C11_Witness ==
    /\ pc = "returned"
    /\ call.level = "estados"
    /\ \E i, j \in 1 .. Len(payload) :
          /\ i < j
          /\ payload[i]["id"] = payload[j]["id"]
          /\ payload[i]["nome"] # payload[j]["nome"]
          /\ payload[i]["regiao"]["id"] # payload[j]["regiao"]["id"]

\* The ids a level holds.
Ids(d, level) == DOMAIN Table(d, level)

\* C12: no step of a sync call, successful or failed, removes a Region, State
\* or Municipality: the set of persisted ids of each level never shrinks.
C12_NeverDeletes ==
    [][\A level \in Levels : Ids(db, level) \subseteq Ids(db', level)]_vars

\* A fetch of a whole collection committed while a row stored locally was
\* absent from the fetched data, and the row is still there.
C12_Witness ==
    /\ pc = "returned"
    /\ reqs = <<CollectionRequest(call.service, call.level)>>
    /\ \E id \in Ids(pre, call.level) :
          /\ \A i \in 1 .. Len(payload) : payload[i]["id"] # id
          /\ id \in Ids(db, call.level)

\* An id argument that was not supplied, or was supplied as 0.
AbsentOrZero(x) == x = None \/ x = Some(0)

\* An id list that was not supplied, or was supplied empty.
AbsentOrEmpty(ids) == ids = None \/ ids = Some(<<>>)

\* The call with every falsy argument replaced by an absent one.
AsIfAbsent(c) ==
    [c EXCEPT !.ids = IF AbsentOrEmpty(@) THEN None ELSE @,
              !.id = IF AbsentOrZero(@) THEN None ELSE @,
              !.parent = IF AbsentOrZero(@) THEN None ELSE @]

\* What a call with no list asks for when absent means None and nothing else.
RequestOf(c) ==
    IF c.id # None THEN SingleEntityRequest(c.service, c.level, c.id[1])
    ELSE IF c.parent # None /\ c.level # "regioes"
    THEN NestedRequest(c.service, c.level, c.parent[1])
    ELSE CollectionRequest(c.service, c.level)

Written(before, after, id) ==
    \/ (id \in DOMAIN before) # (id \in DOMAIN after)
    \/ id \in DOMAIN before /\ before[id] # after[id]

WrittenIds(before, after) ==
    {id \in DOMAIN before \cup DOMAIN after : Written(before, after, id)}

\* The columns the reconciler never names keep their value (the column
\* default "" in a row the call created).
KeepsColumns(before, after, id, cols) ==
    \A k \in cols :
       after[id][k] = IF id \in DOMAIN before THEN before[id][k] ELSE ""

\* The nested region payload of a state payload, when it carries a usable one.
NestedRegiao(item) ==
    IF IsDict(item) /\ "regiao" \in DOMAIN item /\ IsDict(item["regiao"])
       /\ "id" \in DOMAIN item["regiao"]
    THEN Some(item["regiao"])
    ELSE None

\* C15: one ensure_state call writes no row but the State row keyed by the
\* payload id and the Region row keyed by the nested region id. When it
\* succeeds, the Region row has sigla and nome of the nested payload ("" for
\* a missing key) whatever it held before, and the State row has the payload
\* fields and references that Region. Municipality rows, every other Region
\* and State row, and the columns descricao, malha, bandeira and brasao of
\* the written rows stay as they were.
C15_EnsureEstadoFrame ==
    last.level = "estados" =>
       LET item == last.item
           nested == NestedRegiao(item)
       IN  /\ last.after.municipio = last.before.municipio
           /\ \A id \in WrittenIds(last.before.estado, last.after.estado) :
                 /\ IsDict(item) /\ "id" \in DOMAIN item /\ id = item["id"]
                 /\ id \in DOMAIN last.after.estado
                 /\ KeepsColumns(last.before.estado, last.after.estado, id,
                                 {"descricao", "malha", "bandeira", "brasao"})
           /\ \A id \in WrittenIds(last.before.regiao, last.after.regiao) :
                 /\ nested # None /\ id = nested[1]["id"]
                 /\ id \in DOMAIN last.after.regiao
                 /\ KeepsColumns(last.before.regiao, last.after.regiao, id,
                                 {"descricao", "malha"})
           /\ last.err = NoError =>
                 /\ nested # None
                 /\ last.after.regiao[nested[1]["id"]].sigla = Get(nested[1], "sigla", "")
                 /\ last.after.regiao[nested[1]["id"]].nome = Get(nested[1], "nome", "")
                 /\ last.after.estado[item["id"]].sigla = Get(item, "sigla", "")
                 /\ last.after.estado[item["id"]].nome = Get(item, "nome", "")
                 /\ last.after.estado[item["id"]].regiao = Some(nested[1]["id"])

\* ensure_state ran on a stored State whose nested region payload names a
\* stored Region without sigla and nome: both rows existed with other values
\* and non-empty untouched columns, and other rows were stored beside them.
C15_Witness ==
    /\ last.level = "estados"
    /\ last.err = NoError
    /\ last.item["id"] \in DOMAIN last.before.estado
    /\ last.before.estado[last.item["id"]].nome # last.item["nome"]
    /\ last.before.estado[last.item["id"]].brasao # ""
    /\ last.item["regiao"]["id"] \in DOMAIN last.before.regiao
    /\ "sigla" \notin DOMAIN last.item["regiao"]
    /\ last.before.regiao[last.item["regiao"]["id"]].sigla # ""
    /\ last.before.regiao[last.item["regiao"]["id"]].malha # ""
    /\ last.after.regiao[last.item["regiao"]["id"]].sigla = ""
    /\ last.before.municipio # EmptyTable
    /\ Cardinality(DOMAIN last.before.regiao) > 1

(***************************************************************************)
(* Two sync calls running at the same time against one database.           *)
(*                                                                         *)
(* In this specification the variables of a call (pc, call, reqs, resps,   *)
(* payload, result, err, tx) are functions of the caller. db is the        *)
(* committed database, tx[p] holds the rows caller p has written inside    *)
(* its open atomic block, and last is the sequence of upserts in the order *)
(* the database applied them. update_or_create locks the row it writes     *)
(* (select_for_update; a concurrent insert of the same key waits on the    *)
(* primary key) until the writer's transaction ends, and reads the latest  *)
(* committed row under that lock.                                          *)
(***************************************************************************)
Procs == {1, 2}

Tables == {"regiao", "estado", "municipio"}

\* The calls a caller may make here: the whole collection of a level.
ConcCalls == {c \in CallArgs : c.ids = None /\ c.id = None /\ c.parent = None}

\* The answers of the upstream to a caller: those of a single call, and
\* collections that changed between the two fetches, so that the callers hold
\* different fields for the same ids.
ConcResponses(req, level) ==
    Responses(req, level)
    \cup {OkResponse(b) :
             b \in IF level = "regioes" THEN {PyList(<<R2, R1b>>)}
                   ELSE IF level = "estados" THEN {PyList(<<E1, E1b>>)}
                   ELSE {PyList(<<M1, M1b>>)}}

\* The database a caller sees: committed rows under the caller's own writes.
View(d, own) ==
    [regiao |-> own.regiao @@ d.regiao,
     estado |-> own.estado @@ d.estado,
     municipio |-> own.municipio @@ d.municipio]

\* The rows the helper upserts for a payload item (it decides from the
\* payload alone which rows it addresses).
WriteKeys(level, item) ==
    LET d == Ensure(level, EmptyDB, item).db
    IN  [regiao |-> DOMAIN d.regiao, estado |-> DOMAIN d.estado,
         municipio |-> DOMAIN d.municipio]

\* A database whose writes take no row lock.
NoRowLock(p, keys) == FALSE

\* Some row of keys is locked by the open transaction of another caller.
Conflicts(p, keys) ==
    \E q \in Procs \ {p} : \E t \in Tables : keys[t] \cap DOMAIN tx[q][t] # {}

\* The upserts of one helper call in the order it issues them.
Upserts(p, keys, d) ==
    LET One(t) == IF keys[t] = {} THEN <<>>
                  ELSE LET id == CHOOSE i \in keys[t] : TRUE
                       IN  <<[proc |-> p, table |-> t, id |-> id, row |-> d[t][id]]>>
    IN  One("regiao") \o One("estado") \o One("municipio")

WithWrites(own, keys, d) ==
    [regiao |-> [id \in keys.regiao |-> d.regiao[id]] @@ own.regiao,
     estado |-> [id \in keys.estado |-> d.estado[id]] @@ own.estado,
     municipio |-> [id \in keys.municipio |-> d.municipio[id]] @@ own.municipio]

InitConc ==
    /\ db \in InitDBs
    /\ pre = db
    /\ call \in [Procs -> ConcCalls]
    /\ pc = [p \in Procs |-> "fetch"]
    /\ tx = [p \in Procs |-> EmptyDB]
    /\ reqs = [p \in Procs |-> <<>>]
    /\ resps = [p \in Procs |-> <<>>]
    /\ payload = [p \in Procs |-> <<>>]
    /\ result = [p \in Procs |-> <<>>]
    /\ err = [p \in Procs |-> NoError]
    /\ last = <<>>
    /\ prev = NoEnsure
    /\ calls = 0

\* Caller p fetches its payload, then enters its atomic block.
ConcFetch(p) ==
    /\ pc[p] = "fetch"
    /\ LET req == NextRequest(call[p], 1)
       IN  \E resp \in ConcResponses(req, call[p].level) :
             LET r == _request(resp)
             IN  /\ reqs' = [reqs EXCEPT ![p] = Append(@, req)]
                 /\ resps' = [resps EXCEPT ![p] = Append(@, resp)]
                 /\ IF r.err # NoError
                    THEN /\ pc' = [pc EXCEPT ![p] = "raised"]
                         /\ err' = [err EXCEPT ![p] = r.err]
                         /\ UNCHANGED payload
                    ELSE /\ payload' = [payload EXCEPT
                                           ![p] = Extend(@, _normalize_payload(r.json))]
                         /\ pc' = [pc EXCEPT ![p] = "reconcile"]
                         /\ UNCHANGED err
    /\ UNCHANGED <<db, tx, pre, call, result, last, prev, calls>>

\* Caller p reconciles its next payload item; the rows it addresses must not
\* be locked by the other caller. An exception rolls p's block back.
ConcReconcile(p) ==
    /\ pc[p] = "reconcile"
    /\ Len(result[p]) < Len(payload[p])
    /\ LET item == payload[p][Len(result[p]) + 1]
           keys == WriteKeys(call[p].level, item)
           r == Ensure(call[p].level, View(db, tx[p]), item)
       IN  /\ ~Conflicts(p, keys)
           /\ last' = last \o Upserts(p, keys, r.db)
           /\ IF r.err # NoError
              THEN /\ pc' = [pc EXCEPT ![p] = "raised"]
                   /\ err' = [err EXCEPT ![p] = r.err]
                   /\ db' = AtomicExit(db, r.db, TRUE)
                   /\ tx' = [tx EXCEPT ![p] = EmptyDB]
                   /\ UNCHANGED result
              ELSE /\ tx' = [tx EXCEPT ![p] = WithWrites(@, keys, r.db)]
                   /\ result' = [result EXCEPT ![p] = Append(@, r.ent[1])]
                   /\ UNCHANGED <<db, pc, err>>
    /\ UNCHANGED <<pre, call, reqs, resps, payload, prev, calls>>

\* Caller p waits for a row the other caller has locked and the database
\* gives up on p (deadlock victim, lock timeout): the error rolls p's block
\* back.
ConcLockFailure(p) ==
    /\ pc[p] = "reconcile"
    /\ Len(result[p]) < Len(payload[p])
    /\ Conflicts(p, WriteKeys(call[p].level, payload[p][Len(result[p]) + 1]))
    /\ pc' = [pc EXCEPT ![p] = "raised"]
    /\ err' = [err EXCEPT ![p] = "OperationalError"]
    /\ db' = AtomicExit(db, View(db, tx[p]), TRUE)
    /\ tx' = [tx EXCEPT ![p] = EmptyDB]
    /\ UNCHANGED <<pre, call, reqs, resps, payload, result, last, prev, calls>>

\* Caller p's comprehension is exhausted: its block commits.
ConcCommit(p) ==
    /\ pc[p] = "reconcile"
    /\ Len(result[p]) = Len(payload[p])
    /\ db' = AtomicExit(db, View(db, tx[p]), FALSE)
    /\ tx' = [tx EXCEPT ![p] = EmptyDB]
    /\ pc' = [pc EXCEPT ![p] = "returned"]
    /\ UNCHANGED <<pre, call, reqs, resps, payload, result, err, last, prev, calls>>

NextConc ==
    \E p \in Procs :
       \/ ConcFetch(p)
       \/ ConcReconcile(p)
       \/ ConcLockFailure(p)
       \/ ConcCommit(p)

SpecConc == InitConc /\ [][NextConc]_vars

\* The upserts of a row that belong to committed calls, as positions of the
\* order in which the database applied them.
CommittedUpserts(t, id) ==
    {i \in 1 .. Len(last) :
        last[i].table = t /\ last[i].id = id /\ pc[last[i].proc] = "returned"}

Latest(S) == CHOOSE i \in S : \A j \in S : j <= i

KnownIds(t) ==
    DOMAIN db[t] \cup DOMAIN pre[t] \cup {last[i].id : i \in 1 .. Len(last)}

\* C13: two concurrent sync calls are coordinated by their transactions
\* alone. Each id has one row; once calls have committed, the row is, in all
\* its columns, the row written by the upsert the database applied last among
\* the committed calls' upserts of that row (never a mixture of two calls'
\* fields), and a call that has not committed, or that aborted, has left
\* nothing: a row no committed call wrote is as it was before both calls.
C13_LastWriterWins ==
    \A t \in Tables : \A id \in KnownIds(t) :
       LET w == CommittedUpserts(t, id)
       IN  IF w = {}
           THEN /\ (id \in DOMAIN db[t]) = (id \in DOMAIN pre[t])
                /\ id \in DOMAIN pre[t] => db[t][id] = pre[t][id]
           ELSE /\ id \in DOMAIN db[t]
                /\ db[t][id] = last[Latest(w)].row

\* Both calls committed, the last upsert each made of one row wrote different
\* fields, and the row is the one the later of the two upserts wrote.
C13_Witness ==
    /\ \A p \in Procs : pc[p] = "returned"
    /\ \E i, j \in 1 .. Len(last) :
          /\ i < j
          /\ last[i].table = last[j].table
          /\ last[i].id = last[j].id
          /\ last[i].proc # last[j].proc
          /\ last[i].row # last[j].row
          /\ \A k \in (i + 1) .. Len(last) :
                (last[k].table = last[i].table /\ last[k].id = last[i].id) =>
                   last[k].proc = last[j].proc
          /\ j = Latest(CommittedUpserts(last[j].table, last[j].id))
          /\ db[last[j].table][last[j].id] = last[j].row
          /\ db[last[j].table][last[j].id] # last[i].row

====
